---- MODULE Spec2Model ----
(***************************************************************************)
(* A model of src/src/main.rs: a single-threaded HTTP service over one     *)
(* "articles" table, with a scrape-and-insert route.  The request is a     *)
(* text (a TLA+ string); routing, identifier extraction, body extraction   *)
(* and integer parsing are computed on that text as the code computes them.*)
(***************************************************************************)
EXTENDS Integers, Sequences, FiniteSets, TLC

(***************************************************************************)
(* Bounds of the model.                                                    *)
(***************************************************************************)
\* connections the accept loop serves in one run of the model
MaxRequests == 2
\* the largest number of elements the fetched markup has matching the selector
MaxElements == 12

(***************************************************************************)
(* Program constants.                                                      *)
(***************************************************************************)
OK_RESPONSE == "HTTP/1.1 200 OK\r\nContent-Type: application/json\r\n\r\n"
NOT_FOUND == "HTTP/1.1 404 NOT FOUND\r\n\r\n"
INTERNAL_SERVER_ERROR == "HTTP/1.1 500 INTERNAL SERVER ERROR\r\n\r\n"
\* i32::MAX, the largest value get_id(request).parse::<i32>() accepts
I32Max == 2147483647
\* titles.zip(1..11): the exclusive upper end of the rank range
RankEnd == 11

(***************************************************************************)
(* Text primitives of the standard library, as the code uses them.         *)
(***************************************************************************)
\* str::starts_with
starts_with(r, p) == Len(r) >= Len(p) /\ SubSeq(r, 1, Len(p)) = p

\* position of the first occurrence of sep in s at or after i, 0 when none
IndexOf(s, sep, i) ==
    LET hits == {j \in i..(Len(s) - Len(sep) + 1) : SubSeq(s, j, j + Len(sep) - 1) = sep}
    IN  IF hits = {} THEN 0 ELSE CHOOSE j \in hits : \A k \in hits : j <= k

RECURSIVE split(_, _)
\* str::split(sep) collected: the pieces between the occurrences of sep;
\* always at least one piece (the whole text when sep does not occur)
split(s, sep) ==
    LET i == IndexOf(s, sep, 1)
    IN  IF i = 0 THEN << s >>
        ELSE << SubSeq(s, 1, i - 1) >> \o split(SubSeq(s, i + Len(sep), Len(s)), sep)

\* Iterator::nth(n).unwrap_or_default() on the pieces (n counts from 0)
nth_or_default(pieces, n) == IF n + 1 <= Len(pieces) THEN pieces[n + 1] ELSE ""

\* Iterator::last().unwrap_or_default() on the pieces
last_or_default(pieces) == IF Len(pieces) = 0 THEN "" ELSE pieces[Len(pieces)]

WhiteSpace == {" ", "\t", "\r", "\n"}

RECURSIVE SkipWs(_)
SkipWs(s) == IF s # "" /\ Head(s) \in WhiteSpace THEN SkipWs(Tail(s)) ELSE s

RECURSIVE TakeWord(_)
TakeWord(s) ==
    IF s = "" \/ Head(s) \in WhiteSpace THEN "" ELSE Head(s) \o TakeWord(Tail(s))

\* str::split_whitespace().next().unwrap_or_default()
first_word(s) == TakeWord(SkipWs(s))

Digits == {"0", "1", "2", "3", "4", "5", "6", "7", "8", "9"}

DigitVal(c) ==
    CASE c = "0" -> 0 [] c = "1" -> 1 [] c = "2" -> 2 [] c = "3" -> 3 [] c = "4" -> 4
      [] c = "5" -> 5 [] c = "6" -> 6 [] c = "7" -> 7 [] c = "8" -> 8 [] c = "9" -> 9

RECURSIVE AccPos(_, _)
\* checked accumulation of a positive i32: acc * 10 + d, Err on overflow
AccPos(s, acc) ==
    IF s = "" THEN [ok |-> TRUE, val |-> acc]
    ELSE IF Head(s) \notin Digits THEN [ok |-> FALSE, val |-> 0]
    ELSE LET d == DigitVal(Head(s))
         IN  IF acc > (I32Max - d) \div 10 THEN [ok |-> FALSE, val |-> 0]
             ELSE AccPos(Tail(s), acc * 10 + d)

RECURSIVE AccNeg(_, _)
\* checked accumulation of a negative i32: acc * 10 - d, Err on overflow
AccNeg(s, acc) ==
    IF s = "" THEN [ok |-> TRUE, val |-> acc]
    ELSE IF Head(s) \notin Digits THEN [ok |-> FALSE, val |-> 0]
    ELSE LET d == DigitVal(Head(s))
         IN  IF acc < -(I32Max \div 10) \/ acc * 10 < (-I32Max - 1) + d
             THEN [ok |-> FALSE, val |-> 0]
             ELSE AccNeg(Tail(s), acc * 10 - d)

\* str::parse::<i32>(): an optional sign, then one or more digits, in range
parse_i32(s) ==
    IF s = "" THEN [ok |-> FALSE, val |-> 0]
    ELSE IF Head(s) = "-"
         THEN IF Tail(s) = "" THEN [ok |-> FALSE, val |-> 0] ELSE AccNeg(Tail(s), 0)
    ELSE IF Head(s) = "+"
         THEN IF Tail(s) = "" THEN [ok |-> FALSE, val |-> 0] ELSE AccPos(Tail(s), 0)
    ELSE AccPos(s, 0)

\* Get ID function
get_id(request) == first_word(nth_or_default(split(request, "/"), 2))

(***************************************************************************)
(* The Article record and its JSON form (serde_json).  id is Option<i32>:  *)
(* << >> is None and << n >> is Some(n).  The texts of the model carry no  *)
(* escape sequences, so a JSON string is the text between two quotes.      *)
(***************************************************************************)
Article(id, title, content, source) ==
    [id |-> id, title |-> title, content |-> content, source |-> source]

JsonErr == [ok |-> FALSE]

\* a JSON string starting at the opening quote of s
StringAt(t, i) ==
    IF i = 0 THEN JsonErr
    ELSE [ok |-> TRUE, val |-> SubSeq(t, 1, i - 1), rest |-> SubSeq(t, i + 1, Len(t))]

ParseString(s) == StringAt(Tail(s), IndexOf(Tail(s), "\"", 1))

RECURSIVE TakeNumber(_)
TakeNumber(s) ==
    IF s = "" \/ Head(s) \notin (Digits \cup {"-"}) THEN "" ELSE Head(s) \o TakeNumber(Tail(s))

StringValue(r) ==
    IF r.ok THEN [ok |-> TRUE, kind |-> "str", val |-> r.val, rest |-> r.rest] ELSE JsonErr

NumberValue(s, n) ==
    [ok |-> TRUE, kind |-> "num", val |-> n, rest |-> SubSeq(s, Len(n) + 1, Len(s))]

\* a JSON value (string, null or integer) at the start of s
ParseValue(s) ==
    IF s = "" THEN JsonErr
    ELSE IF Head(s) = "\"" THEN StringValue(ParseString(s))
    ELSE IF starts_with(s, "null")
         THEN [ok |-> TRUE, kind |-> "null", val |-> "", rest |-> SubSeq(s, 5, Len(s))]
    ELSE IF Head(s) \in (Digits \cup {"-"}) THEN NumberValue(s, TakeNumber(s))
    ELSE JsonErr

RECURSIVE ParseMembers(_, _)

\* after a member: a comma and the next member, or the closing brace
MemberEnd(w, m) ==
    IF w = "" THEN JsonErr
    ELSE IF Head(w) = "," THEN ParseMembers(Tail(w), m)
    ELSE IF Head(w) = "}" THEN [ok |-> TRUE, members |-> m, rest |-> Tail(w)]
    ELSE JsonErr

MemberValue(k, v, acc) ==
    IF ~v.ok THEN JsonErr
    ELSE MemberEnd(SkipWs(v.rest), Append(acc, [key |-> k, kind |-> v.kind, val |-> v.val]))

MemberColon(k, u, acc) ==
    IF u = "" \/ Head(u) # ":" THEN JsonErr
    ELSE MemberValue(k, ParseValue(SkipWs(Tail(u))), acc)

MemberKey(key, acc) ==
    IF ~key.ok THEN JsonErr ELSE MemberColon(key.val, SkipWs(key.rest), acc)

MemberStart(t, acc) ==
    IF t = "" \/ Head(t) # "\"" THEN JsonErr ELSE MemberKey(ParseString(t), acc)

\* the members of a JSON object after its opening brace, up to its closing brace
ParseMembers(s, acc) == MemberStart(SkipWs(s), acc)

ObjectBody(u) ==
    IF u # "" /\ Head(u) = "}" THEN [ok |-> TRUE, members |-> << >>, rest |-> Tail(u)]
    ELSE ParseMembers(u, << >>)

ObjectEnd(o) == IF o.ok /\ SkipWs(o.rest) = "" THEN o ELSE JsonErr

ObjectStart(t) ==
    IF t = "" \/ Head(t) # "{" THEN JsonErr ELSE ObjectEnd(ObjectBody(SkipWs(Tail(t))))

\* a JSON object that is the whole of s, white space aside
ParseObject(s) == ObjectStart(SkipWs(s))

\* the members of ms named k
At(ms, k) == {i \in 1..Len(ms) : ms[i].key = k}

Get(ms, k) == ms[CHOOSE i \in At(ms, k) : TRUE]

\* a required String field: present once, a JSON string
StrField(ms, k) == Cardinality(At(ms, k)) = 1 /\ Get(ms, k).kind = "str"

\* an Option<i32> field: absent, null, or an integer in range; never repeated
OptI32Field(ms, k) ==
    \/ At(ms, k) = {}
    \/ /\ Cardinality(At(ms, k)) = 1
       /\ \/ Get(ms, k).kind = "null"
          \/ Get(ms, k).kind = "num" /\ parse_i32(Get(ms, k).val).ok

OptI32(ms, k) ==
    IF At(ms, k) = {} \/ Get(ms, k).kind = "null" THEN << >>
    ELSE << parse_i32(Get(ms, k).val).val >>

\* #[derive(Deserialize)] of Article on the members of an object; unknown
\* fields are ignored
DeserializeArticle(o) ==
    IF ~o.ok THEN JsonErr
    ELSE IF /\ StrField(o.members, "title")
            /\ StrField(o.members, "content")
            /\ StrField(o.members, "source")
            /\ OptI32Field(o.members, "id")
         THEN [ok |-> TRUE,
               article |-> Article(OptI32(o.members, "id"), Get(o.members, "title").val,
                                   Get(o.members, "content").val,
                                   Get(o.members, "source").val)]
         ELSE JsonErr

\* serde_json::from_str::<Article>
from_str(s) == DeserializeArticle(ParseObject(s))

\* serde_json::to_string(&article)
to_string(a) ==
    "{\"id\":" \o (IF a.id = << >> THEN "null" ELSE ToString(a.id[1]))
        \o ",\"title\":\"" \o a.title
        \o "\",\"content\":\"" \o a.content
        \o "\",\"source\":\"" \o a.source \o "\"}"

RECURSIVE JoinComma(_)
JoinComma(texts) ==
    IF Len(texts) = 0 THEN ""
    ELSE IF Len(texts) = 1 THEN texts[1]
    ELSE texts[1] \o "," \o JoinComma(Tail(texts))

\* serde_json::to_string(&articles) of a Vec<Article>
to_string_vec(as) == "[" \o JoinComma([i \in 1..Len(as) |-> to_string(as[i])]) \o "]"

\* the text get_article_request_body hands to the JSON decoder
request_body(request) == last_or_default(split(request, "\r\n\r\n"))

\* Deserialize article from request body
get_article_request_body(request) == from_str(request_body(request))

(***************************************************************************)
(* State.                                                                  *)
(*   articles     the rows of table articles: id -> title, content, source *)
(*   seq          the next value of the SERIAL sequence behind column id   *)
(*   running      the process is alive (an unwrap() on Err ends it)        *)
(*   served       connections handled so far by the accept loop            *)
(*   request      the decoded text of the connection handled last          *)
(*   status_line, content   the pair the handler returned for it           *)
(*   written      the bytes written back to that connection                *)
(*   old, old_seq the table and its sequence when that request arrived     *)
(*   env          what the database and the scraped site did during it     *)
(***************************************************************************)
VARIABLES articles, seq, running, served, request, status_line, content, written, old,
          old_seq, env

vars ==
    << articles, seq, running, served, request, status_line, content, written, old, old_seq,
       env >>

Row(title, body, source) == [title |-> title, content |-> body, source |-> source]

NoEnv == [connect |-> TRUE, execute |-> TRUE, fetch |-> "none", elements |-> 0, fail |-> 0]

\* Client::connect succeeded or not, and the statement run on it succeeded or not
Db(c, e) == [NoEnv EXCEPT !.connect = c, !.execute = e]

\* a handler returns (status_line, content)
Return(s, c) == status_line' = s /\ content' = c /\ running' = TRUE

\* .unwrap() on an Err: the only thread panics, nothing is written
Panic == status_line' = "" /\ content' = "" /\ running' = FALSE

\* the INSERT with $1 and $2 bound the wrong way round
Insert_Swapped(table, next, row) ==
    (next :> [row EXCEPT !.title = row.content, !.content = row.title]) @@ table

\* INSERT INTO articles (title, content, source) VALUES ($1, $2, $3)
Insert(table, next, row) == (next :> row) @@ table

\* the UPDATE written as an upsert: a missing row is created
Update_Upsert(table, id, row) ==
    [i \in DOMAIN table \cup {id} |-> IF i = id THEN row ELSE table[i]]

\* UPDATE articles SET title = $1, content = $2, source = $3 WHERE id = $4
Update(table, id, row) == [i \in DOMAIN table |-> IF i = id THEN row ELSE table[i]]

\* the DELETE comparing with <= instead of =
DeleteId_UpTo(table, id) == [i \in {j \in DOMAIN table : j > id} |-> table[i]]

\* DELETE FROM articles WHERE id = $1
DeleteId(table, id) == [i \in DOMAIN table \ {id} |-> table[i]]

\* the DELETE without its WHERE clause
DeleteSource_All(table, source) ==
    IF \E i \in DOMAIN table : table[i].source = source THEN << >> ELSE table

\* DELETE FROM articles WHERE source = $1
DeleteSource(table, source) ==
    [i \in {j \in DOMAIN table : table[j].source # source} |-> table[i]]

RECURSIVE Ascending(_)
Ascending(ids) ==
    IF ids = {} THEN << >>
    ELSE LET m == CHOOSE i \in ids : \A j \in ids : i <= j
         IN  << m >> \o Ascending(ids \ {m})

\* the query with a LIMIT 1 left in
SelectAll_First(table) ==
    LET ids == Ascending(DOMAIN table)
    IN  [n \in 1..(IF Len(ids) = 0 THEN 0 ELSE 1) |->
            Article(<< ids[n] >>, table[ids[n]].title, table[ids[n]].content,
                    table[ids[n]].source)]

\* SELECT * FROM articles, each row as an Article.  The query names no order;
\* the model lists the rows by id, and no property below depends on the order.
SelectAll(table) ==
    LET ids == Ascending(DOMAIN table)
    IN  [n \in 1..Len(ids) |->
            Article(<< ids[n] >>, table[ids[n]].title, table[ids[n]].content,
                    table[ids[n]].source)]

\* Handle POST request function
handle_post_request(r) ==
    LET body == get_article_request_body(r)
    IN  \E c \in BOOLEAN :
          IF body.ok /\ c
          THEN \E e \in BOOLEAN :
                 /\ env' = Db(TRUE, e)
                 /\ IF e
                    THEN /\ articles' = Insert(articles, seq,
                                               Row(body.article.title, body.article.content,
                                                   body.article.source))
                         /\ seq' = seq + 1
                         /\ Return(OK_RESPONSE, "Article created")
                    ELSE Panic /\ UNCHANGED << articles, seq >>
          ELSE /\ env' = Db(c, TRUE)
               /\ Return(INTERNAL_SERVER_ERROR, "Error")
               /\ UNCHANGED << articles, seq >>

\* Handle GET request function
handle_get_request(r) ==
    LET id == parse_i32(get_id(r))
    IN  /\ UNCHANGED << articles, seq >>
        /\ \E c \in BOOLEAN :
             IF id.ok /\ c
             THEN \E e \in BOOLEAN :
                    /\ env' = Db(TRUE, e)
                    /\ IF e /\ id.val \in DOMAIN articles
                       THEN Return(OK_RESPONSE,
                                   to_string(Article(<< id.val >>, articles[id.val].title,
                                                     articles[id.val].content,
                                                     articles[id.val].source)))
                       ELSE Return(NOT_FOUND, "Article not found")
             ELSE env' = Db(c, TRUE) /\ Return(INTERNAL_SERVER_ERROR, "Error")

\* Handle GET all request function
handle_get_all_request(r) ==
    /\ UNCHANGED << articles, seq >>
    /\ \E c \in BOOLEAN :
         IF c
         THEN \E e \in BOOLEAN :
                /\ env' = Db(TRUE, e)
                /\ IF e THEN Return(OK_RESPONSE, to_string_vec(SelectAll(articles)))
                   ELSE Panic
         ELSE env' = Db(FALSE, TRUE) /\ Return(INTERNAL_SERVER_ERROR, "Error")

\* Handle PUT request function
handle_put_request(r) ==
    LET id == parse_i32(get_id(r))
        body == get_article_request_body(r)
    IN  /\ seq' = seq
        /\ \E c \in BOOLEAN :
             IF id.ok /\ body.ok /\ c
             THEN \E e \in BOOLEAN :
                    /\ env' = Db(TRUE, e)
                    /\ IF e
                       THEN /\ articles' = Update(articles, id.val,
                                                  Row(body.article.title, body.article.content,
                                                      body.article.source))
                            /\ Return(OK_RESPONSE, "Article updated")
                       ELSE Panic /\ articles' = articles
             ELSE /\ env' = Db(c, TRUE)
                  /\ Return(INTERNAL_SERVER_ERROR, "Error")
                  /\ articles' = articles

\* Handle DELETE request function
handle_delete_request(r) ==
    LET id == parse_i32(get_id(r))
    IN  /\ seq' = seq
        /\ \E c \in BOOLEAN :
             IF id.ok /\ c
             THEN \E e \in BOOLEAN :
                    /\ env' = Db(TRUE, e)
                    /\ IF e
                       THEN LET rows_affected == Cardinality(DOMAIN articles \cap {id.val})
                            IN  /\ articles' = DeleteId(articles, id.val)
                                /\ IF rows_affected = 0
                                   THEN Return(NOT_FOUND, "Article not found")
                                   ELSE Return(OK_RESPONSE, "Article deleted")
                       ELSE Panic /\ articles' = articles
             ELSE /\ env' = Db(c, TRUE)
                  /\ Return(INTERNAL_SERVER_ERROR, "Error")
                  /\ articles' = articles

\* x.inner_html() of the i-th element the selector matches in the fetched page
inner_html(i) == "m" \o ToString(i * i)

\* document.select(&title_selector).map(|x| x.inner_html()) on a page with k matches
Titles(k) == [i \in 1..k |-> inner_html(i)]

\* the zip over lo..=hi, an inclusive range
zip_Inclusive(titles, lo, hi) ==
    LET n == IF Len(titles) < hi - lo + 1 THEN Len(titles) ELSE hi - lo + 1
    IN  [i \in 1..n |-> [item |-> titles[i], number |-> lo + i - 1]]

\* titles.zip(lo..hi): pairs (item, number), as many as the shorter side has
zip(titles, lo, hi) ==
    LET n == IF Len(titles) < hi - lo THEN Len(titles) ELSE hi - lo
    IN  [i \in 1..n |-> [item |-> titles[i], number |-> lo + i - 1]]

\* the Article built in the loop body for one pair
ScrapedRow(pair) == Row(pair.item, ToString(pair.number) \o ". " \o pair.item, "imdb")

\* the text of the reqwest error in "Error fetching URL: {}"
FetchError == "error sending request"

\* the loop going on to the next pair after an Err instead of returning
Inserted_SkipFailed(n, fail) == IF fail = 0 THEN n ELSE n - 1

\* the inserts the for loop has committed when it ends: all n of them, or,
\* when the fail-th execute returns Err, those before it (the loop returns there)
Inserted(n, fail) == IF fail = 0 THEN n ELSE fail - 1

\* how many elements of the fetched page match the selector
PageSizes == {0, 2, MaxElements}

\* Handle scrape IMDb function.  Selector::parse of the fixed selector text
\* always succeeds, so its Err arm is never taken.  An INSERT that fails adds
\* no row; the rows inserted before it were each committed on their own.
handle_scrape_imdb ==
    \E f \in {"send_err", "text_err", "ok"} :
      IF f = "send_err"
      THEN /\ env' = [NoEnv EXCEPT !.fetch = f]
           /\ Return(INTERNAL_SERVER_ERROR, "Error fetching URL: " \o FetchError)
           /\ UNCHANGED << articles, seq >>
      ELSE IF f = "text_err"
      THEN /\ env' = [NoEnv EXCEPT !.fetch = f]
           /\ Return(INTERNAL_SERVER_ERROR, "Error reading response text")
           /\ UNCHANGED << articles, seq >>
      ELSE \E c \in BOOLEAN :
             IF c
             THEN \E k \in PageSizes :
                    LET pairs == zip(Titles(k), 1, RankEnd)
                    IN  \E fail \in 0..Len(pairs) :
                          \* fail = 0: every insert succeeds; else the fail-th is the first Err
                          LET done == Inserted(Len(pairs), fail)
                          IN  /\ env' = [connect |-> TRUE, execute |-> fail = 0, fetch |-> f,
                                         elements |-> k, fail |-> fail]
                              /\ articles' = [i \in seq..(seq + done - 1) |->
                                                 ScrapedRow(pairs[i - seq + 1])] @@ articles
                              /\ seq' = seq + done
                              /\ IF fail = 0
                                 THEN Return(OK_RESPONSE, "Scraping completed")
                                 ELSE Return(INTERNAL_SERVER_ERROR,
                                             "Error inserting article into database")
             \* titles is lazy: without a connection no element is ever selected
             ELSE /\ env' = [NoEnv EXCEPT !.connect = FALSE, !.fetch = f]
                  /\ Return(INTERNAL_SERVER_ERROR, "Database connection error")
                  /\ UNCHANGED << articles, seq >>

\* Handle delete by source function
handle_delete_by_source(source) ==
    /\ seq' = seq
    /\ \E c \in BOOLEAN :
         IF c
         THEN \E e \in BOOLEAN :
                /\ env' = Db(TRUE, e)
                /\ IF e
                   THEN LET rows_affected ==
                                Cardinality({i \in DOMAIN articles : articles[i].source = source})
                        IN  /\ articles' = DeleteSource(articles, source)
                            /\ IF rows_affected = 0
                               THEN Return(NOT_FOUND, "No articles found for the given source")
                               ELSE Return(OK_RESPONSE, "Articles deleted")
                   ELSE Panic /\ articles' = articles
         ELSE /\ env' = Db(FALSE, TRUE)
              /\ Return(INTERNAL_SERVER_ERROR, "Database connection error")
              /\ articles' = articles

\* the match with the PUT arm's prefix missing its final slash
Route_ShortPut(r) ==
    IF starts_with(r, "POST /articles") THEN "handle_post_request"
    ELSE IF starts_with(r, "GET /articles/") THEN "handle_get_request"
    ELSE IF starts_with(r, "GET /articles") THEN "handle_get_all_request"
    ELSE IF starts_with(r, "PUT /articles") THEN "handle_put_request"
    ELSE IF starts_with(r, "DELETE /articles/") THEN "handle_delete_request"
    ELSE IF starts_with(r, "POST /scrape/imdb") THEN "handle_scrape_imdb"
    ELSE IF starts_with(r, "DELETE /scrape/source/imdb") THEN "handle_delete_by_source"
    ELSE "not_found"

\* the match of handle_client: the first arm whose prefix the request starts with
Route(r) ==
    IF starts_with(r, "POST /articles") THEN "handle_post_request"
    ELSE IF starts_with(r, "GET /articles/") THEN "handle_get_request"
    ELSE IF starts_with(r, "GET /articles") THEN "handle_get_all_request"
    ELSE IF starts_with(r, "PUT /articles/") THEN "handle_put_request"
    ELSE IF starts_with(r, "DELETE /articles/") THEN "handle_delete_request"
    ELSE IF starts_with(r, "POST /scrape/imdb") THEN "handle_scrape_imdb"
    ELSE IF starts_with(r, "DELETE /scrape/source/imdb") THEN "handle_delete_by_source"
    ELSE "not_found"

\* the arm taken when no prefix matches
not_found ==
    /\ env' = NoEnv
    /\ Return(NOT_FOUND, "404 Not Found")
    /\ UNCHANGED << articles, seq >>

\* stream.read into the buffer and its lossy decoding: the request text
Read(r) ==
    /\ running
    /\ served < MaxRequests
    /\ served' = served + 1
    /\ request' = r
    /\ old' = articles
    /\ old_seq' = seq

\* stream.write_all(format!("{}{}", status_line, content))
Write == written' = IF running' THEN status_line' \o content' ELSE ""

\* Handle client function: one connection, read, dispatched and answered
handle_client(r) ==
    \/ Route(r) = "handle_post_request" /\ Read(r) /\ handle_post_request(r) /\ Write
    \/ Route(r) = "handle_get_request" /\ Read(r) /\ handle_get_request(r) /\ Write
    \/ Route(r) = "handle_get_all_request" /\ Read(r) /\ handle_get_all_request(r) /\ Write
    \/ Route(r) = "handle_put_request" /\ Read(r) /\ handle_put_request(r) /\ Write
    \/ Route(r) = "handle_delete_request" /\ Read(r) /\ handle_delete_request(r) /\ Write
    \/ Route(r) = "handle_scrape_imdb" /\ Read(r) /\ handle_scrape_imdb /\ Write
    \/ Route(r) = "handle_delete_by_source" /\ Read(r) /\ handle_delete_by_source("imdb")
          /\ Write
    \/ Route(r) = "not_found" /\ Read(r) /\ not_found /\ Write

(***************************************************************************)
(* The requests of the model: texts a client can send.                     *)
(***************************************************************************)
Req(method, path, body) == method \o " " \o path \o " HTTP/1.1\r\nHost: h\r\n\r\n" \o body

BodyA == "{\"title\":\"A\",\"content\":\"B\",\"source\":\"C\"}"
\* a body that names an id, as a client echoing a record would send
BodyI == "{\"id\":7,\"title\":\"X\",\"content\":\"Y\",\"source\":\"imdb\"}"
\* valid JSON with a blank line inside the object
BodyBlank == "{\r\n\r\n\"title\":\"A\",\"content\":\"B\",\"source\":\"C\"}"
BodyBad == "{\"title\":\"A\"}"

Requests ==
    {Req("POST", "/articles", b) : b \in {BodyA, BodyI, BodyBlank}}
    \cup {"POST /articles", Req("POST", "/articles/5", BodyA)}
    \cup {Req("GET", "/articles/" \o t, "") :
            t \in {"1", "2", "2147483647", "2147483648", "99999999999", "abc"}}
    \cup {Req("GET", "/articles", ""), Req("GET", "/articlesfoo", "")}
    \cup {Req("PUT", "/articles/1", BodyA), Req("PUT", "/articles/2", BodyI),
          Req("PUT", "/articles/9", BodyA), Req("PUT", "/articles/1", BodyBad),
          Req("PUT", "/articles/abc", BodyA)}
    \cup {Req("DELETE", "/articles/" \o t, "") : t \in {"1", "2", "abc"}}
    \cup {Req("POST", "/scrape/imdb", ""), Req("DELETE", "/scrape/source/imdb", "")}
    \cup {Req("PUT", "/articles", BodyA), Req("DELETE", "/scrape/source/other", ""),
          Req("GET", "/", ""), ""}

\* rows an earlier run of the process left in the table (CREATE TABLE IF NOT
\* EXISTS keeps them), with the sequence past every id ever assigned
Stored ==
    { [rows |-> << >>, next |-> 1],
      [rows |-> (2 :> Row("P", "Q", "R")) @@ (3 :> Row("m1", "1. m1", "imdb")), next |-> 4] }

\* Set database function, then the state main starts serving in
Init ==
    /\ \E t \in Stored : articles = t.rows /\ seq = t.next
    /\ running = TRUE
    /\ served = 0
    /\ request = ""
    /\ status_line = ""
    /\ content = ""
    /\ written = ""
    /\ old = articles
    /\ old_seq = seq
    /\ env = NoEnv

Next == \E r \in Requests : handle_client(r)

Spec == Init /\ [][Next]_vars

(***************************************************************************)
(* Properties.  Each is stated on the connection handled last: request is  *)
(* its text, old the table it found, articles the table it left, env what  *)
(* the database and the scraped site did, written what the client got.     *)
(***************************************************************************)
\* the handler the last connection was dispatched to
Routed(h) == served > 0 /\ Route(request) = h

\* the connection to the database and the statement run on it both succeeded
DbOk == env.connect /\ env.execute

\* the identifier of the last request, parsed
ReqId == parse_i32(get_id(request))

\* every row of old is in articles, unchanged
Kept == \A i \in DOMAIN old : i \in DOMAIN articles /\ articles[i] = old[i]

\* C1: a create that answers 200 "Article created" leaves one new row, with
\* the title, content and source of the body sent and an id the storage
\* assigned (never the body's own); read-one of an id that has a row answers
\* 200 with a JSON record that decodes to that id and that row's fields
C1_CreateReadRoundTrip ==
    /\ (Routed("handle_post_request") /\ status_line = OK_RESPONSE) =>
          LET a == from_str(request_body(request)).article
              id == seq - 1
          IN  /\ content = "Article created"
              /\ id \in 1..I32Max
              /\ id \notin DOMAIN old
              /\ DOMAIN articles = DOMAIN old \cup {id}
              /\ Kept
              /\ articles[id] =
                    [title |-> a.title, content |-> a.content, source |-> a.source]
    /\ (Routed("handle_get_request") /\ ReqId.ok /\ DbOk /\ ReqId.val \in DOMAIN articles) =>
          /\ status_line = OK_RESPONSE
          /\ from_str(content) =
                [ok |-> TRUE,
                 article |-> [id |-> << ReqId.val >>,
                              title |-> articles[ReqId.val].title,
                              content |-> articles[ReqId.val].content,
                              source |-> articles[ReqId.val].source]]
          /\ articles = old

\* C1 witness: on an empty table, body A was created and read back by id 1
C1_Witness ==
    /\ request = Req("GET", "/articles/1", "")
    /\ status_line = OK_RESPONSE
    /\ seq = 2
    /\ articles = (1 :> Row("A", "B", "C"))
    /\ content = "{\"id\":1,\"title\":\"A\",\"content\":\"B\",\"source\":\"C\"}"

\* C2: with the database answering, DELETE /articles/{id} of an id that has
\* a row answers 200 "Article deleted" and removes that row only; an id once
\* assigned and now without a row gets no row again, whatever is created
\* later; and GET and DELETE of an id without a row answer 404 and change nothing
C2_DeleteThenAbsent ==
    /\ (Routed("handle_delete_request") /\ ReqId.ok /\ DbOk) =>
          IF ReqId.val \in DOMAIN old
          THEN /\ status_line = OK_RESPONSE
               /\ content = "Article deleted"
               /\ DOMAIN articles = DOMAIN old \ {ReqId.val}
               /\ \A i \in DOMAIN articles : articles[i] = old[i]
          ELSE /\ status_line = NOT_FOUND
               /\ content = "Article not found"
               /\ articles = old
    /\ (Routed("handle_get_request") /\ ReqId.ok /\ env.connect
          /\ ReqId.val \notin DOMAIN old) =>
          /\ status_line = NOT_FOUND
          /\ articles = old
    /\ \A i \in 1..(old_seq - 1) : i \notin DOMAIN old => i \notin DOMAIN articles
    /\ DOMAIN articles \subseteq 1..(seq - 1)
    /\ old_seq <= seq

\* C2 witness: row 2 was deleted, and the DELETE sent again got 404
C2_Witness ==
    /\ request = Req("DELETE", "/articles/2", "")
    /\ status_line = NOT_FOUND
    /\ seq = 4
    /\ DOMAIN articles = {3}
    /\ articles = old

\* a text of decimal digits
IsDecimal(t) == t # "" /\ \A i \in 1..Len(t) : SubSeq(t, i, i) \in Digits

\* C3: read-one of a decimal integer identifier never assigned to an article,
\* however large, answers 404 when the database is reachable
C3_ReadMissingIs404 ==
    (/\ Routed("handle_get_request")
     /\ IsDecimal(get_id(request))
     /\ \A i \in 1..(seq - 1) : ToString(i) # get_id(request)
     /\ env.connect) =>
        status_line = NOT_FOUND

\* C4: with the database answering, PUT /articles/{id} with an id that
\* parses and a body that decodes answers 200 "Article updated" whether or not
\* the row exists; without the row the table is unchanged, with it only that
\* row's title, content and source change
C4_UpdateNoExistenceCheck ==
    (/\ Routed("handle_put_request")
     /\ ReqId.ok
     /\ from_str(request_body(request)).ok
     /\ DbOk) =>
        LET a == from_str(request_body(request)).article
        IN  /\ status_line = OK_RESPONSE
            /\ content = "Article updated"
            /\ DOMAIN articles = DOMAIN old
            /\ \A i \in DOMAIN old \ {ReqId.val} : articles[i] = old[i]
            /\ ReqId.val \in DOMAIN old =>
                  articles[ReqId.val] =
                     [title |-> a.title, content |-> a.content, source |-> a.source]
            /\ ReqId.val \notin DOMAIN old => articles = old

\* C4 witness: PUT of id 9, which has no row, answered 200 and changed nothing
C4_Witness ==
    /\ request = Req("PUT", "/articles/9", BodyA)
    /\ status_line = OK_RESPONSE
    /\ written = OK_RESPONSE \o "Article updated"
    /\ 9 \notin DOMAIN old
    /\ articles = old

\* the records of a JSON array of articles, counted by their opening "{"id":"
CountRecords(text) == Len(split(text, "{\"id\":")) - 1

\* C5: with the database answering, read-all answers 200 with an array of
\* exactly the stored rows, "[]" on an empty table, and leaves the table as it
\* was; each successful create adds exactly one row, so N creates on an empty
\* table make it an array of N records
C5_ReadAllExact ==
    /\ (Routed("handle_get_all_request") /\ DbOk) =>
          /\ status_line = OK_RESPONSE
          /\ CountRecords(content) = Cardinality(DOMAIN articles)
          /\ \A i \in DOMAIN articles :
                \E pieces \in {split(content, to_string(Article(<< i >>, articles[i].title,
                                                               articles[i].content,
                                                               articles[i].source)))} :
                   Len(pieces) = 2
          /\ (articles = << >>) => content = "[]"
          /\ (DOMAIN articles = 1..(seq - 1)) => CountRecords(content) = seq - 1
          /\ articles = old
    /\ (Routed("handle_post_request") /\ status_line = OK_RESPONSE) =>
          Cardinality(DOMAIN articles) = Cardinality(DOMAIN old) + 1

\* C5 witness: read-all after one create on an empty table lists that one record
C5_Witness ==
    /\ request = Req("GET", "/articles", "")
    /\ status_line = OK_RESPONSE
    /\ articles = (1 :> Row("A", "B", "C"))
    /\ seq = 2
    /\ CountRecords(content) = 1
    /\ content = "[{\"id\":1,\"title\":\"A\",\"content\":\"B\",\"source\":\"C\"}]"

\* the ids of the rows the last connection added, in ascending order
Added == Ascending(DOMAIN articles \ DOMAIN old)

\* the row the scrape builds for the i-th matching element: rank i, its text
RankedRow(i) ==
    [title |-> inner_html(i), content |-> ToString(i) \o ". " \o inner_html(i),
     source |-> "imdb"]

\* the last connection was a scrape that fetched a page and reached the database
Scraped == Routed("handle_scrape_imdb") /\ env.fetch = "ok" /\ env.connect

\* C6: a scrape of a page with k matching elements whose inserts all succeed
\* adds exactly min(k, 10) rows (10 when k = 12), the i-th added row being
\* source "imdb", title the i-th element's text and content "<i>. <title>",
\* changes no row that was there and answers 200 "Scraping completed"
C6_ScrapeFirstTen ==
    (Scraped /\ env.fail = 0) =>
        LET n == IF env.elements < 10 THEN env.elements ELSE 10
        IN  /\ status_line = OK_RESPONSE
            /\ content = "Scraping completed"
            /\ Len(Added) = n
            /\ env.elements = 12 => Len(Added) = 10
            /\ \A i \in 1..Len(Added) : articles[Added[i]] = RankedRow(i)
            /\ DOMAIN old \subseteq DOMAIN articles
            /\ Kept

\* C6 witness: a page with 12 matching elements was scraped into 10 rows
C6_Witness ==
    /\ Scraped
    /\ env.fail = 0
    /\ env.elements >= 12
    /\ status_line = OK_RESPONSE
    /\ Len(Added) = 10
    /\ articles[Added[10]].content = "10. m100"

\* C7: with the database answering, DELETE /scrape/source/imdb on a table
\* holding rows of source "imdb" (as after a scrape that inserted some)
\* removes every such row, leaves every other row unchanged and answers 200
\* "Articles deleted"; on a table holding none it answers 404 and changes nothing
C7_DeleteBySource ==
    (Routed("handle_delete_by_source") /\ DbOk) =>
        IF \E i \in DOMAIN old : old[i].source = "imdb"
        THEN /\ status_line = OK_RESPONSE
             /\ content = "Articles deleted"
             /\ DOMAIN articles = {i \in DOMAIN old : old[i].source # "imdb"}
             /\ \A i \in DOMAIN articles : articles[i] = old[i]
        ELSE /\ status_line = NOT_FOUND
             /\ content = "No articles found for the given source"
             /\ articles = old

\* C7 witness: the rows of a scrape of 12 elements and an older imdb row were
\* deleted by source, and the one row of another source was left
C7_Witness ==
    /\ request = Req("DELETE", "/scrape/source/imdb", "")
    /\ status_line = OK_RESPONSE
    /\ Cardinality(DOMAIN old) = 12
    /\ \E i \in DOMAIN old : old[i] = RankedRow(10)
    /\ articles = (2 :> Row("P", "Q", "R"))

\* the method of a request text: its first word
Method(r) == first_word(r)

\* the path of a request text: its second word
Path(r) == first_word(SubSeq(SkipWs(r), Len(Method(r)) + 1, Len(SkipWs(r))))

\* a path /articles/{id}: one non-empty segment after the collection
IsArticlePath(path) ==
    /\ starts_with(path, "/articles/")
    /\ Len(path) > Len("/articles/")
    /\ Len(split(path, "/")) = 3

\* the seven method/path pairs of the route table
Registered(method, path) ==
    \/ method = "POST" /\ path = "/articles"
    \/ method = "GET" /\ IsArticlePath(path)
    \/ method = "GET" /\ path = "/articles"
    \/ method = "PUT" /\ IsArticlePath(path)
    \/ method = "DELETE" /\ IsArticlePath(path)
    \/ method = "POST" /\ path = "/scrape/imdb"
    \/ method = "DELETE" /\ path = "/scrape/source/imdb"

\* no handler ran: the fixed 404 was written and the database was not touched
Answered404 ==
    /\ written = NOT_FOUND \o "404 Not Found"
    /\ articles = old
    /\ seq = old_seq
    /\ env = NoEnv

\* C8 as stated: a request whose method and path are not one of the seven
\* routes invokes no handler, leaves the table unchanged and gets the 404 body
C8_UnregisteredPairIs404 ==
    (served > 0 /\ ~Registered(Method(request), Path(request))) => Answered404

\* the literal prefixes of the match arms, in order
RoutePrefixes ==
    << "POST /articles", "GET /articles/", "GET /articles", "PUT /articles/",
       "DELETE /articles/", "POST /scrape/imdb", "DELETE /scrape/source/imdb" >>

\* C8 amended: a request whose text starts with none of the seven literal
\* prefixes invokes no handler, leaves the table unchanged and gets the 404
\* status line followed by the body "404 Not Found"
C8_NoPrefixIs404 ==
    (served > 0 /\ \A i \in 1..Len(RoutePrefixes) : ~starts_with(request, RoutePrefixes[i])) =>
        Answered404

\* C8 witness: PUT /articles, which no prefix matches, got the 404 body
C8_Witness ==
    /\ request = Req("PUT", "/articles", BodyA)
    /\ served > 0
    /\ written = "HTTP/1.1 404 NOT FOUND\r\n\r\n404 Not Found"
    /\ articles = old

\* the substring after the first blank-line separator, empty when there is none
AfterFirstBlankLine(r) ==
    IF IndexOf(r, "\r\n\r\n", 1) = 0 THEN ""
    ELSE SubSeq(r, IndexOf(r, "\r\n\r\n", 1) + 4, Len(r))

\* C9: the JSON body handed to the create and update handlers is the
\* substring of the request after its first blank-line separator, and the
\* empty string when the request has no such separator
C9_BodyAfterFirstBlankLine ==
    (Routed("handle_post_request") \/ Routed("handle_put_request")) =>
        request_body(request) = AfterFirstBlankLine(request)

\* C10: when the j-th insert of a scrape fails, no further insert is made,
\* the answer is 500 and the table holds the rows it held plus the rows of
\* ranks 1..j-1, which stay committed
C10_ScrapeAbortsNoRollback ==
    (Scraped /\ env.fail >= 1) =>
        /\ status_line = INTERNAL_SERVER_ERROR
        /\ content = "Error inserting article into database"
        /\ env.fail <= (IF env.elements < 10 THEN env.elements ELSE 10)
        /\ Len(Added) = env.fail - 1
        /\ \A i \in 1..Len(Added) : articles[Added[i]] = RankedRow(i)
        /\ DOMAIN old \subseteq DOMAIN articles
        /\ Kept

\* C10 witness: the 4th insert of a scrape failed on a table that held rows;
\* ranks 1 to 3 are in the table next to them
C10_Witness ==
    /\ Scraped
    /\ env.fail = 4
    /\ status_line = INTERNAL_SERVER_ERROR
    /\ DOMAIN old = {2, 3}
    /\ DOMAIN articles = {2, 3, 4, 5, 6}
    /\ articles[6] = RankedRow(3)

====
